---- MODULE Spec2Model ----
(***************************************************************************)
(* Model of src/dataset/transforms.py: the AUG_METHODS registry, the      *)
(* configuration compiler create_AugTransforms, the custom transforms     *)
(* Cutout, CutAddNoise and PadIfNeed, and BaseClassWiseAugmenter.         *)
(* Each component has its own specification; the variables of the other   *)
(* components stay at their initial values.                               *)
(***************************************************************************)
EXTENDS Integers, Naturals, Sequences, FiniteSets, TLC

VARIABLES
    reg,        \* AUG_METHODS: name -> factory
    regErr,     \* exception raised by the last register_method call
    regName,    \* fn.__name__ of the last register_method call
    cfg,        \* configuration handed to create_AugTransforms
    comp,       \* result of create_AugTransforms
    img,        \* input image of a transform call
    tf,         \* the constructed Cutout / CutAddNoise (its attributes)
    ndir,       \* noise directory handed to CutAddNoise
    res,        \* value returned by the transform call
    corner,     \* top-left corner of the last hole computed
    hole,       \* holes processed so far in the call
    draw,       \* random draws of the call
    cmap,       \* class_transforms_mapping handed to BaseClassWiseAugmenter
    cw,         \* BaseClassWiseAugmenter.class_transforms
    pc          \* position of the component's driver

vars == <<reg, regErr, regName, cfg, comp, img, tf, ndir, res, corner, hole, draw, cmap, cw, pc>>
cutVars == <<img, tf, ndir, res, corner, hole, draw>>
cwVars == <<cmap, cw>>

(***************************************************************************)
(* Bounds                                                                  *)
(***************************************************************************)
MaxEntries == 2
MaxChoices == 2
MaxSide == 2
MaxHoles == 2
MaxLength == 2
\* random.random() is drawn from {0, 1/RandQ, ..., (RandQ-1)/RandQ}.
RandQ == 4
MaxPadSide == 4
MaxIdx == 3
MaxIdxLen == 2
MaxStrLen == 3

(***************************************************************************)
(* Registry                                                                *)
(***************************************************************************)
\* Names registered by the @register_method decorators at import time.
BuiltinNames == {"random_cutout", "random_cutaddnoise", "color_jitter",
                 "random_autocontrast", "random_adjustsharpness",
                 "random_invert", "random_equalize", "random_augmix",
                 "random_crop", "random_color_jitter", "random_horizonflip",
                 "random_verticalflip", "random_rotate", "to_tensor",
                 "to_tensor_without_div", "normalize", "random_augment",
                 "center_crop", "resize", "centercrop_resize",
                 "random_affine", "random_gaussianblur", "random_grayscale",
                 "random_crop_and_resize", "pad2square", "random_choice"}

\* Factories that raise TypeError when called without arguments
\* ('no_params'): a required positional argument (random_rotate,
\* center_crop, centercrop_resize, random_crop_and_resize, random_choice,
\* and T.RandomCrop's size in random_crop), or defaults torchvision rejects
\* (random_affine's translate=0. and scale=0.).
NeedsArgs == {"random_rotate", "center_crop", "centercrop_resize",
              "random_crop_and_resize", "random_choice", "random_crop",
              "random_affine"}

\* random_cutaddnoise() builds CutAddNoise(noisy_src=None): glob('None/*.jpg')
\* is empty and self.noisy[0] raises IndexError.
NoArgsIndexError == {"random_cutaddnoise"}

\* Names of user functions decorated later, and their function objects.
UserNames == {"my_aug1", "my_aug2", "my_aug3"}
UserFns == {"f1", "f2"}

\* AUG_METHODS after the module has been imported.
ImportRegistry == [n \in BuiltinNames |-> "builtin"]

\* Variant that stores the function before checking for a duplicate.
register_method_overwrite(r, key, fn) ==
    [reg |-> [n \in DOMAIN r \cup {key} |-> IF n = key THEN fn ELSE r[n]],
     err |-> IF key \in DOMAIN r THEN "ValueError" ELSE "none"]

\* register_method(fn): key = fn.__name__; duplicate key raises ValueError.
register_method(r, key, fn) ==
    IF key \in DOMAIN r
    THEN [reg |-> r, err |-> "ValueError"]
    ELSE [reg |-> [n \in DOMAIN r \cup {key} |-> IF n = key THEN fn ELSE r[n]],
          err |-> "none"]

(***************************************************************************)
(* Configuration compiler                                                  *)
(***************************************************************************)
\* Parameter values: the 'no_params' sentinel, a dict of valid keyword
\* arguments, or a list (any non-dict value).
PK == {"no_params", "kw", "list"}
\* Step names used in configurations (one of them unregistered).
CfgNames == {"resize", "center_crop", "no_such_aug"}
CfgKeys == CfgNames \cup {"random_choice"}

\* Items of a random_choice list: a one-key dict, or an ill-formed item.
\* (center_crop only appears at the top level.)
OneItems == {[t |-> "one", name |-> n, pk |-> p] :
                n \in CfgNames \ {"center_crop"}, p \in PK}
BadItems == {[t |-> b, name |-> "", pk |-> ""] : b \in {"two_key_dict", "nondict"}}
Items == OneItems \cup BadItems

RECURSIVE SeqsUpTo(_, _)
SeqsUpTo(S, n) ==
    IF n = 0 THEN {<<>>}
    ELSE {<<>>} \cup {<<x>> \o s : x \in S, s \in SeqsUpTo(S, n - 1)}

\* Values of an entry: params of an ordinary entry, or the value under
\* the 'random_choice' key (a list of items, or a dict).
OrdParams == {[t |-> p, items |-> <<>>] : p \in PK}
RcParams == {[t |-> "list", items |-> s] : s \in SeqsUpTo(Items, MaxChoices)}
            \cup {[t |-> "kw", items |-> <<>>]}
ParamsFor(k) == IF k = "random_choice" THEN RcParams ELSE OrdParams

RECURSIVE InjSeqs(_, _)
InjSeqs(S, n) ==
    IF n = 0 THEN {<<>>}
    ELSE {<<>>} \cup UNION {{<<x>> \o s : s \in InjSeqs(S \ {x}, n - 1)} : x \in S}

RECURSIVE CfgsFor(_)
CfgsFor(ks) ==
    IF ks = <<>> THEN {<<>>}
    ELSE {<<<<Head(ks), p>>>> \o rest : p \in ParamsFor(Head(ks)),
                                       rest \in CfgsFor(Tail(ks))}


NoStep == [kind |-> "none", name |-> "", pk |-> "", cands |-> <<>>, id |-> 0]

\* Variant that looks names up with a default instead of failing.
addAugToSequence_lenient(name, p, made) ==
    IF p = "no_params" /\ name \in NeedsArgs
    THEN [err |-> "TypeError", step |-> NoStep]
    ELSE IF p = "no_params" /\ name \in NoArgsIndexError
    THEN [err |-> "IndexError", step |-> NoStep]
    ELSE IF p # "no_params" /\ p # "kw"
         THEN [err |-> "AssertionError", step |-> NoStep]
         ELSE [err |-> "none",
               step |-> [kind |-> "t", name |-> name, pk |-> p,
                         cands |-> <<>>, id |-> made + 1]]

\* addAugToSequence(aug_name, params, aug_list): outcome of one factory
\* call; 'made' counts the transforms constructed so far (object ids).
addAugToSequence(name, p, made) ==
    IF p = "no_params"
    THEN IF name \notin DOMAIN ImportRegistry
         THEN [err |-> "KeyError", step |-> NoStep]
         ELSE IF name \in NeedsArgs
              THEN [err |-> "TypeError", step |-> NoStep]
              ELSE IF name \in NoArgsIndexError
              THEN [err |-> "IndexError", step |-> NoStep]
              ELSE [err |-> "none",
                    step |-> [kind |-> "t", name |-> name, pk |-> p,
                              cands |-> <<>>, id |-> made + 1]]
    ELSE IF p # "kw"
         THEN [err |-> "AssertionError", step |-> NoStep]
         ELSE IF name \notin DOMAIN ImportRegistry
              THEN [err |-> "KeyError", step |-> NoStep]
              ELSE [err |-> "none",
                    step |-> [kind |-> "t", name |-> name, pk |-> p,
                              cands |-> <<>>, id |-> made + 1]]

\* Variant that skips ill-formed random_choice items instead of asserting.
RECURSIVE ChoiceLoop_skip(_, _, _)
ChoiceLoop_skip(items, lst, made) ==
    IF items = <<>> THEN [err |-> "none", list |-> lst, made |-> made]
    ELSE LET it == Head(items) IN
         IF it.t # "one"
         THEN ChoiceLoop_skip(Tail(items), lst, made)
         ELSE LET r == addAugToSequence(it.name, it.pk, made) IN
              IF r.err # "none"
              THEN [err |-> r.err, list |-> lst, made |-> made]
              ELSE ChoiceLoop_skip(Tail(items), Append(lst, r.step), made + 1)

\* The loop over the random_choice list.
RECURSIVE ChoiceLoop(_, _, _)
ChoiceLoop(items, lst, made) ==
    IF items = <<>> THEN [err |-> "none", list |-> lst, made |-> made]
    ELSE LET it == Head(items) IN
         IF it.t # "one"
         THEN [err |-> "AssertionError", list |-> lst, made |-> made]
         ELSE LET r == addAugToSequence(it.name, it.pk, made) IN
              IF r.err # "none"
              THEN [err |-> r.err, list |-> lst, made |-> made]
              ELSE ChoiceLoop(Tail(items), Append(lst, r.step), made + 1)

\* Variant that splices the random_choice candidates into the pipeline.
RECURSIVE CompileLoop_flatten(_, _, _)
CompileLoop_flatten(es, augs, made) ==
    IF es = <<>> THEN [err |-> "none", pipe |-> augs, made |-> made]
    ELSE LET key == Head(es)[1]
             p == Head(es)[2]
         IN IF key = "random_choice"
            THEN IF p.t # "list"
                 THEN [err |-> "AssertionError", pipe |-> augs, made |-> made]
                 ELSE LET c == ChoiceLoop(p.items, <<>>, made) IN
                      IF c.err # "none"
                      THEN [err |-> c.err, pipe |-> augs, made |-> c.made]
                      ELSE CompileLoop_flatten(Tail(es), augs \o c.list, c.made)
            ELSE LET r == addAugToSequence(key, p.t, made) IN
                 IF r.err # "none"
                 THEN [err |-> r.err, pipe |-> augs, made |-> made]
                 ELSE CompileLoop_flatten(Tail(es), Append(augs, r.step), made + 1)

\* The loop over the configuration's entries.
RECURSIVE CompileLoop(_, _, _)
CompileLoop(es, augs, made) ==
    IF es = <<>> THEN [err |-> "none", pipe |-> augs, made |-> made]
    ELSE LET key == Head(es)[1]
             p == Head(es)[2]
         IN IF key = "random_choice"
            THEN IF p.t # "list"
                 THEN [err |-> "AssertionError", pipe |-> augs, made |-> made]
                 ELSE LET c == ChoiceLoop(p.items, <<>>, made) IN
                      IF c.err # "none"
                      THEN [err |-> c.err, pipe |-> augs, made |-> c.made]
                      ELSE CompileLoop(Tail(es),
                              Append(augs, [kind |-> "choice", name |-> key,
                                            pk |-> "", cands |-> c.list,
                                            id |-> c.made + 1]),
                              c.made + 1)
            ELSE LET r == addAugToSequence(key, p.t, made) IN
                 IF r.err # "none"
                 THEN [err |-> r.err, pipe |-> augs, made |-> made]
                 ELSE CompileLoop(Tail(es), Append(augs, r.step), made + 1)

\* create_AugTransforms(augments): T.Compose(augs), or the exception.
\* 'made' is the number of transforms constructed before returning/raising.
create_AugTransforms(c) ==
    LET r == CompileLoop(c, <<>>, 0) IN
    IF r.err = "none"
    THEN [err |-> "none", pipe |-> r.pipe, made |-> r.made]
    ELSE [err |-> r.err, pipe |-> <<>>, made |-> r.made]

NoComp == [err |-> "none", pipe |-> <<>>, made |-> 0]

(***************************************************************************)
(* Registry specification                                                  *)
(***************************************************************************)
NoImage == [w |-> 0, h |-> 0, px |-> <<>>]
NoDraw == [r |-> 0, maskw |-> 0, center |-> <<0, 0>>, color |-> 0, hit |-> FALSE,
          udraws |-> 0]
NoMap == [given |-> FALSE, m |-> <<>>]
CwIdle == cmap = NoMap /\ cw = [given |-> FALSE, m |-> <<>>]

CutIdle ==
    /\ img = NoImage
    /\ tf = [kind |-> "none"]
    /\ ndir = [exists |-> FALSE, files |-> {}]
    /\ res = [kind |-> "none", im |-> NoImage]
    /\ corner = <<0, 0>>
    /\ hole = 0
    /\ draw = NoDraw

InitReg ==
    /\ CwIdle
    /\ CutIdle
    /\ reg = ImportRegistry
    /\ regErr = "none"
    /\ regName = ""
    /\ cfg = <<>>
    /\ comp = NoComp
    /\ pc = "idle"

\* Decorating a function with @register_method.
Register ==
    \E key \in BuiltinNames \cup UserNames, fn \in UserFns :
        LET r == register_method(reg, key, fn) IN
        /\ reg' = r.reg
        /\ regErr' = r.err
        /\ regName' = key
        /\ UNCHANGED <<cfg, comp, pc>>
        /\ UNCHANGED cutVars
        /\ UNCHANGED cwVars

NextReg == Register
SpecReg == InitReg /\ [][NextReg]_vars

(***************************************************************************)
(* Compiler specification                                                  *)
(***************************************************************************)
Init ==
    /\ CwIdle
    /\ CutIdle
    /\ reg = ImportRegistry
    /\ regErr = "none"
    /\ regName = ""
    \* a Python dict: distinct keys in insertion order
    /\ \E ks \in InjSeqs(CfgKeys, MaxEntries) : cfg \in CfgsFor(ks)
    /\ comp = NoComp
    /\ pc = "idle"

Compile ==
    /\ pc = "idle"
    /\ comp' = create_AugTransforms(cfg)
    /\ pc' = IF comp'.err = "none" THEN "done" ELSE "raised"
    /\ UNCHANGED <<reg, regErr, regName, cfg>>
    /\ UNCHANGED cutVars
    /\ UNCHANGED cwVars

Next == Compile
Spec == Init /\ [][Next]_vars

(***************************************************************************)
(* Cutout and CutAddNoise                                                  *)
(***************************************************************************)
Max(a, b) == IF a >= b THEN a ELSE b
Min(a, b) == IF a <= b THEN a ELSE b

\* PIL images: width, height and one value per pixel <<x, y>> (0 is black).
Pix(w, h) == (0..(w - 1)) \X (0..(h - 1))
Fam(f, p) == IF f = "black" THEN 0 ELSE 1
Images == {[w |-> w, h |-> h, px |-> [p \in Pix(w, h) |-> Fam(f, p)]] :
              w \in 1..MaxSide, h \in 1..MaxSide,
              f \in {"black", "white"}}

\* h_range / w_range: None, or a [low, high) list for np.random.randint.
RangeOpts == {[given |-> FALSE, lo |-> 0, hi |-> 0],
              [given |-> TRUE, lo |-> -1, hi |-> 1],
              [given |-> TRUE, lo |-> 1, hi |-> 3]}
\* h = self.h_range if self.h_range is not None else [0, img.height]
Range(opt, dim) == IF opt.given THEN <<opt.lo, opt.hi>> ELSE <<0, dim>>

\* Files of the noise directory; glob('*.jpg') skips hidden files.
Files == {[name |-> "a.jpg", ext |-> ".jpg", hidden |-> FALSE, color |-> 2],
          [name |-> "b.png", ext |-> ".png", hidden |-> FALSE, color |-> 4],
          [name |-> ".h.jpg", ext |-> ".jpg", hidden |-> TRUE, color |-> 5]}
NoiseDirs == {[exists |-> FALSE, files |-> {}]}
             \cup {[exists |-> TRUE, files |-> S] : S \in SUBSET Files}
Glob(d) == IF d.exists THEN {f \in d.files : f.ext = ".jpg" /\ ~f.hidden}
           ELSE {}

\* Constructor arguments (ratio and prob in quarters).
CutoutArgs == [kind : {"Cutout_args"}, n : 1..MaxHoles, length : 1..MaxLength,
               ratio4 : {0, 2}, hr : RangeOpts, wr : RangeOpts,
               prob4 : {0, 4}, noisy : {{}}]
NoiseArgs == [kind : {"CutAddNoise_args"}, n : 1..MaxHoles,
              length : 1..MaxLength, ratio4 : {0}, hr : RangeOpts,
              wr : RangeOpts, prob4 : {0, 4}, noisy : {{}}]

\* CutAddNoise.__init__: self.noisy = glob(...); self.noisy[0] raises
\* IndexError on an empty list.
\* Variant that defers the failure to the first call.
NoiseInit_lazy(d) == [ok |-> TRUE, noisy |-> Glob(d)]
NoiseInit(d) == [ok |-> Glob(d) # {}, noisy |-> Glob(d)]

\* if random.random() > self.prob: return image
CutoutSkips(r, prob4) == r * 4 > prob4 * RandQ

\* x1 = max(0, x - self.length // 2)
\* Variant without the clamp.
Corner_noclamp(c, len) == c - len \div 2
Corner(c, len) == Max(0, c - len \div 2)

\* img.paste(mask, (x1, y1)) for every corner: pixels under a mask_w x
\* mask_h box become black (the paste is clipped to the image).
PasteMasks(im, cs, mw, mh) ==
    [im EXCEPT !.px = [p \in DOMAIN im.px |->
        IF \E k \in 1..Len(cs) : /\ cs[k][1] <= p[1] /\ p[1] < cs[k][1] + mw
                                 /\ cs[k][2] <= p[2] /\ p[2] < cs[k][2] + mh
        THEN 0 ELSE im.px[p]]]

\* noisy_image.crop((x1, y1, x2, y2)) pasted at (x1, y1) for every box.
PasteNoise(im, bs, color) ==
    [im EXCEPT !.px = [p \in DOMAIN im.px |->
        IF \E k \in 1..Len(bs) : /\ bs[k][1] <= p[1] /\ p[1] < bs[k][3]
                                 /\ bs[k][2] <= p[2] /\ p[2] < bs[k][4]
        THEN color ELSE im.px[p]]]

InitCut ==
    /\ CwIdle
    /\ reg = ImportRegistry
    /\ regErr = "none"
    /\ regName = ""
    /\ cfg = <<>>
    /\ comp = NoComp
    /\ img \in Images
    /\ \/ tf \in CutoutArgs /\ ndir = [exists |-> FALSE, files |-> {}]
       \/ tf \in NoiseArgs /\ ndir \in NoiseDirs
    /\ res = [kind |-> "none", im |-> NoImage]
    /\ corner = <<0, 0>>
    /\ hole = 0
    /\ draw = NoDraw
    /\ pc = "init"

\* Cutout.__init__ stores its arguments.
ConstructCutout ==
    /\ pc = "init"
    /\ tf.kind = "Cutout_args"
    /\ tf' = [tf EXCEPT !.kind = "Cutout"]
    /\ pc' = "ready"
    /\ UNCHANGED <<reg, regErr, regName, cfg, comp, img, ndir, res, corner, hole, draw, cmap, cw>>

\* CutAddNoise.__init__
ConstructCutAddNoise ==
    /\ pc = "init"
    /\ tf.kind = "CutAddNoise_args"
    /\ LET r == NoiseInit(ndir) IN
       IF r.ok
       THEN /\ tf' = [tf EXCEPT !.kind = "CutAddNoise", !.noisy = r.noisy]
            /\ pc' = "ready"
       ELSE /\ tf' = [tf EXCEPT !.kind = "CutAddNoise_failed"]
            /\ pc' = "raised"
    /\ UNCHANGED <<reg, regErr, regName, cfg, comp, img, ndir, res, corner, hole, draw, cmap, cw>>

\* Cutout.__call__(image), up to the hole loop: the probability gate, the
\* deep copy and the mask of width int(uniform(1-ratio, 1+ratio) * length).
CutoutCall ==
    /\ pc = "ready"
    /\ tf.kind = "Cutout"
    /\ \E r \in 0..(RandQ - 1) :
        IF CutoutSkips(r, tf.prob4)
        THEN /\ res' = [kind |-> "same", im |-> img]
             /\ draw' = [NoDraw EXCEPT !.r = r]
             /\ pc' = "returned"
        ELSE \E u4 \in (4 - tf.ratio4)..(4 + tf.ratio4) :
             /\ res' = [kind |-> "copy", im |-> img]
             /\ draw' = [NoDraw EXCEPT !.r = r, !.maskw = (u4 * tf.length) \div 4,
                                        !.udraws = 1]
             /\ pc' = "cutout_holes"
    /\ hole' = 0
    /\ UNCHANGED <<reg, regErr, regName, cfg, comp, img, tf, ndir, corner, cmap, cw>>

\* One iteration of Cutout's hole loop: center, top-left corner, paste; the
\* call returns after the last hole.
CutoutHole ==
    /\ pc = "cutout_holes"
    /\ LET hr == Range(tf.hr, img.h)
           wr == Range(tf.wr, img.w)
       IN \E y \in hr[1]..(hr[2] - 1), x \in wr[1]..(wr[2] - 1) :
            LET c == <<Corner(x, tf.length), Corner(y, tf.length)>> IN
            /\ corner' = c
            /\ res' = [res EXCEPT !.im =
                         PasteMasks(res.im, <<c>>, draw.maskw, tf.length)]
            /\ draw' = [draw EXCEPT !.center = <<x, y>>,
                                     !.hit = @ \/ (c[1] < img.w /\ c[2] < img.h)]
    /\ hole' = hole + 1
    /\ pc' = IF hole + 1 = tf.n THEN "returned" ELSE "cutout_holes"
    /\ UNCHANGED <<reg, regErr, regName, cfg, comp, img, tf, ndir, cmap, cw>>

\* CutAddNoise.__call__(image), up to the hole loop: the probability gate,
\* the deep copy and the noise image (random.choice, resized to the image).
NoiseCall ==
    /\ pc = "ready"
    /\ tf.kind = "CutAddNoise"
    /\ \E r \in 0..(RandQ - 1) :
        IF CutoutSkips(r, tf.prob4)
        THEN /\ res' = [kind |-> "same", im |-> img]
             /\ draw' = [NoDraw EXCEPT !.r = r]
             /\ pc' = "returned"
        ELSE \E f \in tf.noisy :
             /\ res' = [kind |-> "copy", im |-> img]
             /\ draw' = [NoDraw EXCEPT !.r = r, !.color = f.color]
             /\ pc' = "noise_holes"
    /\ hole' = 0
    /\ UNCHANGED <<reg, regErr, regName, cfg, comp, img, tf, ndir, corner, cmap, cw>>

\* One iteration of CutAddNoise's hole loop. noisy_image.crop raises
\* ValueError when x2 < x1 or y2 < y1 in recent Pillow releases and yields
\* an empty image in older ones: both outcomes are kept.
NoiseHole ==
    /\ pc = "noise_holes"
    /\ LET hr == Range(tf.hr, img.h)
           wr == Range(tf.wr, img.w)
           half == tf.length \div 2
       IN \E y \in hr[1]..(hr[2] - 1), x \in wr[1]..(wr[2] - 1), strict \in BOOLEAN :
            LET b == <<Corner(x, tf.length), Corner(y, tf.length),
                       Min(img.w, x + half), Min(img.h, y + half)>>
                bad == b[3] < b[1] \/ b[4] < b[2]
            IN /\ corner' = <<b[1], b[2]>>
               /\ draw' = [draw EXCEPT !.center = <<x, y>>]
               /\ IF strict /\ bad
                  THEN /\ res' = [kind |-> "none", im |-> NoImage]
                       /\ pc' = "raised"
                  ELSE /\ res' = [res EXCEPT !.im =
                                    PasteNoise(res.im, <<b>>, draw.color)]
                       /\ pc' = IF hole + 1 = tf.n THEN "returned" ELSE "noise_holes"
    /\ hole' = hole + 1
    /\ UNCHANGED <<reg, regErr, regName, cfg, comp, img, tf, ndir, cmap, cw>>

NextCut ==
    \/ ConstructCutout
    \/ ConstructCutAddNoise
    \/ CutoutCall
    \/ CutoutHole
    \/ NoiseCall
    \/ NoiseHole
SpecCut == InitCut /\ [][NextCut]_vars

(***************************************************************************)
(* PadIfNeed                                                               *)
(***************************************************************************)
\* A source image whose pixels carry their own coordinates, so that the
\* paste position can be read off the canvas.
SrcPixel(x, y) == [kind |-> "src", x |-> x, y |-> y, fill |-> <<0, 0, 0>>]
FillPixel(v) == [kind |-> "fill", x |-> 0, y |-> 0, fill |-> v]
PadImages == {[w |-> w, h |-> h, px |-> [p \in Pix(w, h) |-> SrcPixel(p[1], p[2])]] :
                 w \in 1..MaxPadSide, h \in 1..MaxPadSide}

\* pad_value: an int, a 3-sequence, or a sequence of another length.
\* pad_value: an int, a 3-tuple, a 3-list (e.g. read from YAML), or a
\* sequence of another length.
PadValues == {[isint |-> TRUE, istuple |-> FALSE, v |-> <<0>>],
              [isint |-> FALSE, istuple |-> TRUE, v |-> <<1, 2, 3>>],
              [isint |-> FALSE, istuple |-> FALSE, v |-> <<1, 2, 3>>],
              [isint |-> FALSE, istuple |-> TRUE, v |-> <<1, 2>>]}
PadModes == {"edge", "average", "center"}

\* PadIfNeed.__init__: the int is broadcast to a triple; the assertions
\* reject a sequence of length # 3 and an unknown mode.
PadIfNeed_init(pv, mode) ==
    IF pv.isint
    THEN [ok |-> mode \in {"edge", "average"},
          pad |-> <<pv.v[1], pv.v[1], pv.v[1]>>, padtuple |-> TRUE, mode |-> mode]
    ELSE [ok |-> Len(pv.v) = 3 /\ mode \in {"edge", "average"},
          pad |-> pv.v, padtuple |-> pv.istuple, mode |-> mode]

\* new_im.paste(image, offset) in PadIfNeed.__call__.
PasteOffset(mode, m, w, h) ==
    IF mode = "average" THEN <<(m - w) \div 2, (m - h) \div 2>>
    ELSE <<m - w, m - h>>

\* PadIfNeed.__call__(image): an RGB canvas of side max(w, h) filled with
\* pad_value, with the image pasted at the offset. Image.new only takes an
\* int or a tuple as colour: a list pad_value raises TypeError there.
PadIfNeed_call(t, im) ==
    LET m == Max(im.w, im.h)
        o == PasteOffset(t.mode, m, im.w, im.h)
    IN IF ~t.padtuple THEN [ok |-> FALSE, im |-> NoImage]
       ELSE [ok |-> TRUE, im |-> [w |-> m, h |-> m,
        px |-> [q \in Pix(m, m) |->
                  IF /\ o[1] <= q[1] /\ q[1] < o[1] + im.w
                     /\ o[2] <= q[2] /\ q[2] < o[2] + im.h
                  THEN im.px[<<q[1] - o[1], q[2] - o[2]>>]
                  ELSE FillPixel(t.pad)]]]

InitPad ==
    /\ CwIdle
    /\ reg = ImportRegistry
    /\ regErr = "none"
    /\ regName = ""
    /\ cfg = <<>>
    /\ comp = NoComp
    /\ img \in PadImages
    /\ \E pv \in PadValues, mode \in PadModes :
          tf = [kind |-> "PadIfNeed_args", pv |-> pv, mode |-> mode,
                pad |-> <<>>, padtuple |-> FALSE]
    /\ ndir = [exists |-> FALSE, files |-> {}]
    /\ res = [kind |-> "none", im |-> NoImage]
    /\ corner = <<0, 0>>
    /\ hole = 0
    /\ draw = NoDraw
    /\ pc = "init"

ConstructPadIfNeed ==
    /\ pc = "init"
    /\ tf.kind = "PadIfNeed_args"
    /\ LET r == PadIfNeed_init(tf.pv, tf.mode) IN
       IF r.ok
       THEN /\ tf' = [tf EXCEPT !.kind = "PadIfNeed", !.pad = r.pad,
                                 !.padtuple = r.padtuple]
            /\ pc' = "ready"
       ELSE /\ tf' = [tf EXCEPT !.kind = "PadIfNeed_failed"]
            /\ pc' = "raised"
    /\ UNCHANGED <<reg, regErr, regName, cfg, comp, img, ndir, res, corner, hole, draw, cmap, cw>>

PadIfNeedCall ==
    /\ pc = "ready"
    /\ tf.kind = "PadIfNeed"
    /\ LET r == PadIfNeed_call(tf, img) IN
       IF r.ok
       THEN /\ res' = [kind |-> "new", im |-> r.im]
            /\ pc' = "returned"
       ELSE /\ res' = [kind |-> "none", im |-> NoImage]
            /\ pc' = "raised"
    /\ UNCHANGED <<reg, regErr, regName, cfg, comp, img, tf, ndir, corner, hole, draw, cmap, cw>>

NextPad == ConstructPadIfNeed \/ PadIfNeedCall
SpecPad == InitPad /\ [][NextPad]_vars

(***************************************************************************)
(* BaseClassWiseAugmenter                                                  *)
(***************************************************************************)
\* Base configurations: valid entries over three keys.
BaseEntry(k) ==
    IF k = "random_choice"
    THEN <<k, [t |-> "list", items |-> <<[t |-> "one", name |-> "resize", pk |-> "kw"]>>]>>
    ELSE <<k, [t |-> "kw", items |-> <<>>]>>
BaseCfgs == {[i \in 1..Len(ks) |-> BaseEntry(ks[i])] :
                ks \in InjSeqs({"resize", "center_crop", "random_choice"}, 3)}

Classes == {"A", "B"}
Chars == {"0", "1", "2", "-", " "}
IdxLists == SeqsUpTo(-MaxIdx..MaxIdx, MaxIdxLen)
IdxStrs == SeqsUpTo(Chars, MaxStrLen)
\* A class's indices: a list of ints, or a string.
IdxSpecs == {[isstr |-> FALSE, l |-> l, s |-> <<>>] : l \in IdxLists}
            \cup {[isstr |-> TRUE, l |-> <<>>, s |-> s] : s \in IdxStrs}
\* Class "B" takes a fixed small set of index specs, among them strings with
\* extra whitespace.
ClassBSpecs == {[isstr |-> FALSE, l |-> l, s |-> <<>>] : l \in SeqsUpTo({-1, 0, 1}, 2)}
               \cup {[isstr |-> TRUE, l |-> <<>>, s |-> s] :
                       s \in {<<" ", "1", " ", " ", "0", " ">>, <<"-", "1", " ", "-", "1">>,
                             <<"0", "0", " ", " ", "-", "0">>}}
Mappings == {NoMap}
            \cup {[given |-> TRUE, m |-> mp] :
                     mp \in {<<>>} \cup {"A" :> a : a \in IdxSpecs}
                           \cup {"B" :> b : b \in ClassBSpecs}
                           \cup {("A" :> a) @@ ("B" :> b) : a \in IdxSpecs, b \in ClassBSpecs}}

\* str.split(): the maximal runs of non-space characters.
RECURSIVE SplitWs(_, _, _)
SplitWs(s, cur, acc) ==
    IF s = <<>> THEN IF cur = <<>> THEN acc ELSE Append(acc, cur)
    ELSE IF Head(s) = " "
         THEN SplitWs(Tail(s), <<>>, IF cur = <<>> THEN acc ELSE Append(acc, cur))
         ELSE SplitWs(Tail(s), Append(cur, Head(s)), acc)

Digit(c) == CASE c = "0" -> 0 [] c = "1" -> 1 [] c = "2" -> 2
RECURSIVE DecVal(_, _)
DecVal(t, acc) == IF t = <<>> THEN acc ELSE DecVal(Tail(t), acc * 10 + Digit(Head(t)))

\* int(token): an optional '-' followed by at least one digit, else
\* ValueError.
ParseInt(t) ==
    IF t # <<>> /\ t[1] = "-"
    THEN IF Len(t) >= 2 /\ \A j \in 2..Len(t) : t[j] # "-"
         THEN [ok |-> TRUE, v |-> -DecVal(Tail(t), 0)]
         ELSE [ok |-> FALSE, v |-> 0]
    ELSE IF t # <<>> /\ \A j \in 1..Len(t) : t[j] # "-"
         THEN [ok |-> TRUE, v |-> DecVal(t, 0)]
         ELSE [ok |-> FALSE, v |-> 0]

\* self.base_transforms.transforms[i]: Python list indexing.
\* Variant that rejects negative indices.
IndexOk_nonneg(i, n) == 0 <= i /\ i < n
IndexOk(i, n) == -n <= i /\ i < n
Position(i, n) == IF i >= 0 THEN i + 1 ELSE n + i + 1

\* The inner loop: transform.append(steps[int(i)]) for i in t.
\* Variant that drops repeated steps.
RECURSIVE ClassLoop_dedup(_, _, _)
ClassLoop_dedup(steps, t, acc) ==
    IF t = <<>> THEN [err |-> "none", sub |-> acc]
    ELSE LET r == Head(t) IN
         IF ~r.ok THEN [err |-> "ValueError", sub |-> acc]
         ELSE IF ~IndexOk(r.v, Len(steps)) THEN [err |-> "IndexError", sub |-> acc]
         ELSE LET st == steps[Position(r.v, Len(steps))] IN
              ClassLoop_dedup(steps, Tail(t),
                  IF \E j \in 1..Len(acc) : acc[j] = st THEN acc ELSE Append(acc, st))
RECURSIVE ClassLoop(_, _, _)
ClassLoop(steps, t, acc) ==
    IF t = <<>> THEN [err |-> "none", sub |-> acc]
    ELSE LET r == Head(t) IN
         IF ~r.ok THEN [err |-> "ValueError", sub |-> acc]
         ELSE IF ~IndexOk(r.v, Len(steps)) THEN [err |-> "IndexError", sub |-> acc]
         ELSE ClassLoop(steps, Tail(t), Append(acc, steps[Position(r.v, Len(steps))]))

\* if isinstance(t, str): t = t.split(); then int(i) per element.
Tokens(sp) ==
    IF sp.isstr
    THEN LET ts == SplitWs(sp.s, <<>>, <<>>) IN [j \in 1..Len(ts) |-> ParseInt(ts[j])]
    ELSE [j \in 1..Len(sp.l) |-> [ok |-> TRUE, v |-> sp.l[j]]]

\* BaseClassWiseAugmenter.__init__
BaseClassWiseAugmenter_init(base, mp) ==
    LET b == create_AugTransforms(base) IN
    IF b.err # "none" THEN [err |-> b.err, base |-> b, cw |-> NoMap]
    ELSE IF ~mp.given THEN [err |-> "none", base |-> b, cw |-> NoMap]
    ELSE LET rs == [c \in DOMAIN mp.m |-> ClassLoop(b.pipe, Tokens(mp.m[c]), <<>>)]
         IN IF \E c \in DOMAIN mp.m : rs[c].err # "none"
            THEN [err |-> "raised", base |-> b, cw |-> NoMap]
            ELSE [err |-> "none", base |-> b,
                  cw |-> [given |-> TRUE, m |-> [c \in DOMAIN mp.m |-> rs[c].sub]]]

InitCW ==
    /\ reg = ImportRegistry
    /\ regErr = "none"
    /\ regName = ""
    /\ cfg \in BaseCfgs
    /\ comp = NoComp
    /\ cmap \in Mappings
    /\ cw = NoMap
    /\ CutIdle
    /\ pc = "init"

ConstructClassWise ==
    /\ pc = "init"
    /\ LET r == BaseClassWiseAugmenter_init(cfg, cmap) IN
       /\ comp' = r.base
       /\ cw' = r.cw
       /\ pc' = IF r.err = "none" THEN "built" ELSE "raised"
    /\ UNCHANGED <<reg, regErr, regName, cfg, cmap>>
    /\ UNCHANGED cutVars

NextCW == ConstructClassWise
SpecCW == InitCW /\ [][NextCW]_vars

(***************************************************************************)
(* Claims about the registry and the compiler                              *)
(***************************************************************************)
\* C2: registering a name already in AUG_METHODS raises, and the entry keeps
\* mapping to the first registered factory.
C2_DuplicateKeepsFirst ==
    [][regName' \in DOMAIN reg =>
         /\ regErr' = "ValueError"
         /\ reg' = reg]_vars

C2_Witness == regErr = "ValueError" /\ regName \in UserNames

IsRc(e) == e[1] = "random_choice"

\* C1: create_AugTransforms yields one step per top-level entry, in entry
\* order; a random_choice entry is one choice step holding its candidates
\* in list order.
C1_OneStepPerEntry ==
    pc = "done" =>
        /\ Len(comp.pipe) = Len(cfg)
        /\ \A i \in 1..Len(cfg) :
              IF IsRc(cfg[i])
              THEN /\ comp.pipe[i].kind = "choice"
                   /\ Len(comp.pipe[i].cands) = Len(cfg[i][2].items)
                   /\ \A j \in 1..Len(cfg[i][2].items) :
                         /\ comp.pipe[i].cands[j].name = cfg[i][2].items[j].name
                         /\ comp.pipe[i].cands[j].pk = cfg[i][2].items[j].pk
              ELSE /\ comp.pipe[i].kind = "t"
                   /\ comp.pipe[i].name = cfg[i][1]
                   /\ comp.pipe[i].pk = cfg[i][2].t

C1_Witness ==
    /\ pc = "done"
    /\ Len(cfg) = 2
    /\ \E i \in 1..2 : IsRc(cfg[i]) /\ Len(cfg[i][2].items) = 2

\* Names the compiler resolves, in the order it constructs them: an
\* ordinary entry, or each random_choice item followed by the choice itself.
EntryNames(e) ==
    IF IsRc(e) /\ e[2].t = "list"
    THEN [j \in 1..Len(e[2].items) |-> e[2].items[j].name] \o <<"random_choice">>
    ELSE <<e[1]>>

RECURSIVE Flat(_)
Flat(c) == IF c = <<>> THEN <<>> ELSE EntryNames(Head(c)) \o Flat(Tail(c))

HasUnknown(c) == \E i \in 1..Len(Flat(c)) : Flat(c)[i] \notin BuiltinNames

FirstUnknown(c) ==
    CHOOSE i \in 1..Len(Flat(c)) :
        /\ Flat(c)[i] \notin BuiltinNames
        /\ \A j \in 1..(i - 1) : Flat(c)[j] \in BuiltinNames

\* C3 (original): compiling a configuration that names an unregistered step
\* raises, returns no pipeline, and constructs nothing.
C3_NoPartialConstruction ==
    (pc # "idle" /\ HasUnknown(cfg)) =>
        /\ pc = "raised"
        /\ comp.pipe = <<>>
        /\ comp.made = 0

\* C3 (amended): it raises and returns no pipeline; only the transforms of
\* the steps before the unknown name may have been constructed (and are
\* discarded).
C3_RaisesNoPipeline ==
    (pc # "idle" /\ HasUnknown(cfg)) =>
        /\ pc = "raised"
        /\ comp.pipe = <<>>
        /\ comp.made <= FirstUnknown(cfg) - 1

C3_Witness == pc = "raised" /\ HasUnknown(cfg) /\ comp.made > 0

\* C4: ill-formed params, a non-list random_choice value, or a random_choice
\* item that is not a one-key dict make compilation fail.
Malformed(c) ==
    \E i \in 1..Len(c) :
        IF IsRc(c[i])
        THEN \/ c[i][2].t # "list"
             \/ \E j \in 1..Len(c[i][2].items) :
                   \/ c[i][2].items[j].t # "one"
                   \/ c[i][2].items[j].pk = "list"
        ELSE c[i][2].t = "list"

C4_MalformedIsFatal ==
    (pc # "idle" /\ Malformed(cfg)) => (pc = "raised" /\ comp.pipe = <<>>)

C4_Witness ==
    /\ pc = "raised"
    /\ \E i \in 1..Len(cfg) :
          IsRc(cfg[i]) /\ \E j \in 1..Len(cfg[i][2].items) :
                             cfg[i][2].items[j].t = "two_key_dict"

(***************************************************************************)
(* Claims about Cutout and CutAddNoise                                     *)
(***************************************************************************)
CutoutDone == pc = "returned" /\ tf.kind = "Cutout"

\* C5: with prob 0 every Cutout call returns its input unchanged. (The
\* claim's second half, that with prob 1 the returned pixels always differ,
\* fails besides on an all-black input, where the black holes change nothing.)
C5_ProbZeroIdentity ==
    (CutoutDone /\ tf.prob4 = 0) => (res.kind = "same" /\ res.im = img)

\* C6: every top-left corner computed by Cutout and CutAddNoise is >= (0, 0).
C6_CornerNonNegative == corner[1] >= 0 /\ corner[2] >= 0

C6_Witness ==
    /\ hole >= 1
    /\ tf.kind = "CutAddNoise"
    /\ draw.center[1] < 0
    /\ draw.center[2] < 0

\* C10: CutAddNoise built on a directory with no .jpg file (or no directory)
\* raises at construction, before any image is processed.
NoJpg(d) == ~d.exists \/ \A f \in d.files : f.ext # ".jpg"

C10_EmptyNoiseDirFails ==
    (tf.kind \in {"CutAddNoise", "CutAddNoise_failed"} /\ NoJpg(ndir)) =>
        /\ tf.kind = "CutAddNoise_failed"
        /\ pc = "raised"
        /\ res.kind = "none"

C10_Witness == tf.kind = "CutAddNoise_failed" /\ ndir.exists /\ ndir.files # {}

(***************************************************************************)
(* Claims about PadIfNeed                                                  *)
(***************************************************************************)
PadDone == pc = "returned" /\ tf.kind = "PadIfNeed"
Abs(n) == IF n < 0 THEN -n ELSE n

\* The canvas PadIfNeed returned is square of side max(w, h) and holds the
\* whole image; 'average' pastes at ((max-w)//2, (max-h)//2), within half a
\* pixel of the centre; 'edge' pastes at (max-w, max-h), all padding before
\* it.
PadSquare ==
    PadDone =>
      LET m == Max(img.w, img.h)
          out == res.im
          o == CHOOSE q \in DOMAIN out.px : out.px[q] = SrcPixel(0, 0)
      IN /\ out.w = m /\ out.h = m /\ DOMAIN out.px = Pix(m, m)
         /\ \A q \in Pix(img.w, img.h) :
               /\ <<o[1] + q[1], o[2] + q[2]>> \in DOMAIN out.px
               /\ out.px[<<o[1] + q[1], o[2] + q[2]>>] = SrcPixel(q[1], q[2])
         /\ tf.mode = "average" =>
               /\ o = <<(m - img.w) \div 2, (m - img.h) \div 2>>
               /\ Abs(2 * o[1] + img.w - m) <= 1
               /\ Abs(2 * o[2] + img.h - m) <= 1
         /\ tf.mode = "edge" =>
               /\ o = <<m - img.w, m - img.h>>
               /\ \A q \in DOMAIN out.px :
                     out.px[q].kind = "fill" => (q[1] < m - img.w \/ q[2] < m - img.h)

\* C7: for every input size, a constructed PadIfNeed returns (it does not
\* raise) a square canvas with the geometry above.
C7_EverySizeSquare ==
    /\ (tf.kind = "PadIfNeed" /\ pc # "ready") => pc = "returned"
    /\ PadSquare

(***************************************************************************)
(* Claims about BaseClassWiseAugmenter                                     *)
(***************************************************************************)
DigitChar(d) == CASE d = 0 -> "0" [] d = 1 -> "1" [] d = 2 -> "2" [] OTHER -> "?"
RECURSIVE Dec(_)
Dec(n) == IF n < 10 THEN <<DigitChar(n)>> ELSE Dec(n \div 10) \o <<DigitChar(n % 10)>>

\* A token written for the integer i: an optional sign (required when
\* i < 0, allowed when i = 0), leading zeros, then the digits of |i|.
Zeros(k) == [j \in 1..k |-> "0"]
TokDenotes(t, i) ==
    \E sg \in (IF i < 0 THEN {<<"-">>} ELSE IF i = 0 THEN {<<>>, <<"-">>} ELSE {<<>>}),
       k \in 0..Len(t) :
        t = sg \o Zeros(k) \o Dec(Abs(i))

RECURSIVE LStrip(_)
LStrip(s) == IF s # <<>> /\ Head(s) = " " THEN LStrip(Tail(s)) ELSE s

\* The text s writes the integers of l in order, separated by runs of spaces,
\* with any leading or trailing spaces.
RECURSIVE StrDenotes(_, _)
StrDenotes(s, l) ==
    LET u == LStrip(s) IN
    IF l = <<>> THEN u = <<>>
    ELSE \E k \in 1..Len(u) :
            /\ TokDenotes(SubSeq(u, 1, k), Head(l))
            /\ k = Len(u) \/ u[k + 1] = " "
            /\ StrDenotes(SubSeq(u, k + 1, Len(u)), Tail(l))

\* The index spec denotes the index list l (as a list, or as text).
Denotes(sp, l) == IF sp.isstr THEN StrDenotes(sp.s, l) ELSE sp.l = l

\* Python indexing into the compiled default pipeline.
PyItem(pipe, i) == IF i >= 0 THEN pipe[i + 1] ELSE pipe[Len(pipe) + i + 1]

\* C8: each class's sub-pipeline is the default pipeline's steps at the
\* listed indices, in order, repeats kept (list or string form); without a
\* mapping class_transforms is None.
C8_SubPipelines ==
    pc = "built" =>
      /\ ~cmap.given => cw = NoMap
      /\ cmap.given =>
           /\ cw.given
           /\ DOMAIN cw.m = DOMAIN cmap.m
           /\ \A c \in DOMAIN cmap.m : \E l \in IdxLists : Denotes(cmap.m[c], l)
           /\ \A c \in DOMAIN cmap.m, l \in IdxLists :
                 Denotes(cmap.m[c], l) =>
                    cw.m[c] = [k \in 1..Len(l) |-> PyItem(comp.pipe, l[k])]

C8_Witness ==
    /\ pc = "built"
    /\ cmap.given
    /\ DOMAIN cmap.m = Classes
    /\ cmap.m["A"].isstr
    /\ Len(cmap.m["A"].s) >= 1
    /\ cmap.m["A"].s[1] = " "
    /\ cmap.m["B"].isstr
    /\ Len(cw.m["B"]) = 2
    /\ cw.m["B"][1] = cw.m["B"][2]
    /\ cw.m["A"] # cw.m["B"]

\* C9 (original): construction fails whenever an index is outside
\* 0..len-1, negative indices included.
C9_OutOfRangeFatal ==
    pc = "built" =>
      \A c \in DOMAIN cmap.m, l \in IdxLists :
         Denotes(cmap.m[c], l) =>
            \A k \in 1..Len(l) : 0 <= l[k] /\ l[k] < Len(comp.pipe)

\* A '-' that does not start a token followed by a digit: int() fails.
BadMinus(s) ==
    \E j \in 1..Len(s) :
        /\ s[j] = "-"
        /\ \/ j > 1 /\ s[j - 1] # " "
           \/ j = Len(s)
           \/ j < Len(s) /\ s[j + 1] \in {" ", "-"}

\* C9 (amended): construction fails when an index is < -len or >= len, or a
\* string token is no integer literal; indices in -len..-1 are accepted.
C9_IndexRangeFatal ==
    (pc \in {"built", "raised"} /\ cmap.given) =>
      LET n == Len(comp.pipe) IN
      /\ (\E c \in DOMAIN cmap.m :
            \/ cmap.m[c].isstr /\ BadMinus(cmap.m[c].s)
            \/ \E l \in IdxLists :
                  Denotes(cmap.m[c], l) /\ \E k \in 1..Len(l) : l[k] < -n \/ l[k] >= n)
         => pc = "raised"
      /\ (\A c \in DOMAIN cmap.m : \E l \in IdxLists :
            Denotes(cmap.m[c], l) /\ \A k \in 1..Len(l) : -n <= l[k] /\ l[k] < n)
         => pc = "built"

C9_Witness ==
    /\ pc = "built"
    /\ cmap.given
    /\ \E c \in DOMAIN cmap.m : \E k \in 1..Len(cmap.m[c].l) : cmap.m[c].l[k] < 0

(***************************************************************************)
(* Claim about the holes of one Cutout call                                *)
(***************************************************************************)
CutoutHoleDone == tf.kind = "Cutout" /\ hole >= 1 /\ pc \in {"cutout_holes", "returned"}

\* C11: in a Cutout call that applies, every hole draws its own U (so after
\* k holes k draws of random.uniform were made), and each hole's corner is
\* its center minus half of that hole's side (int(L*U) horizontally, L
\* vertically), clamped to 0.
C11_HoleGeometry ==
    CutoutHoleDone =>
        /\ draw.udraws = hole
        /\ corner[1] = Max(0, draw.center[1] - draw.maskw \div 2)
        /\ corner[2] = Max(0, draw.center[2] - tf.length \div 2)

====
